---- MODULE Spec2Model ----
(***************************************************************************)
(* The NachOS MP4 file system (filesys.cc and filehdr.cc) as a state       *)
(* machine over the disk image.                                            *)
(*                                                                         *)
(* The disk is an array of sectors.  A sector holds a file header          *)
(* (FileHeader, exactly one sector), or the value a file's content was     *)
(* last written with (the free map or a directory table, kept whole in     *)
(* the file's first data sector), or the zeros of a fresh disk.            *)
(* Every file-system call is one action: it runs the whole routine on      *)
(* working copies and leaves behind exactly the sectors the routine        *)
(* wrote before it returned or stopped on an ASSERT.                       *)
(***************************************************************************)
EXTENDS Integers, Sequences, FiniteSets, TLC

\* ------------------------------------------------------------ parameters

\* disk.h NumSectors, scaled down.
NumSectors == 24
\* disk.h SectorSize in bytes, scaled down.
SectorSize == 4
\* filehdr.h NumDirect: sector numbers one header holds, scaled down.
NumDirect == 3
\* filesys.cc NumDirEntries (64), scaled down.
NumDirEntries == 2
\* Longest path, in components, the calls are tried with.
MaxDepth == 3
\* Number of calls in one run.
MaxOps == 3
\* filesys.cc OpenId: the ids 1 .. 20 of the open-file table, scaled down.
NumOpen == 3
\* Runs that use the open-file table: files made first, calls in all.
MaxMade == 1
MaxCalls == 5

FreeMapSector == 0
DirectorySector == 1

\* NumSectors / BitsInByte, BitsInByte = 8.
FreeMapFileSize == NumSectors \div 8
\* sizeof(DirectoryEntry) * NumDirEntries, one byte per entry in this scale.
DirectoryFileSize == NumDirEntries

MaxFileSize == NumDirect * SectorSize
MaxFileSize2 == NumDirect * MaxFileSize
MaxFileSize3 == NumDirect * MaxFileSize2

Sectors == 0 .. (NumSectors - 1)
Names == {"a", "b"}
Paths == UNION {[1 .. n -> Names] : n \in 1 .. MaxDepth}
\* One size per branch of Allocate: empty, direct, one, two and three levels
\* of child headers.  The last has more data sectors than the disk has
\* sectors: Allocate turns it down.
Sizes == {0, 1, MaxFileSize + 1, MaxFileSize2 + 1, MaxFileSize3 + 1}

divRoundUp(n, s) == (n + s - 1) \div s
Min(S) == CHOOSE x \in S : \A y \in S : x <= y

\* ------------------------------------------------------------ sector contents

Zero == [k |-> "zero"]
NoSectors == [i \in 1 .. NumDirect |-> -1]
\* FileHeader::FileHeader: numBytes = numSectors = -1, dataSectors all -1.
NewHeader == [k |-> "hdr", numBytes |-> -1, numSectors |-> -1, dataSectors |-> NoSectors]
FreeEntry == [inUse |-> FALSE, name |-> "", sector |-> -1, isDir |-> FALSE]
\* Directory::Directory: every entry not in use.
NewTable == [i \in 1 .. NumDirEntries |-> FreeEntry]
DirData(t) == [k |-> "dir", table |-> t]
MapData(m) == [k |-> "map", bits |-> m]

\* ------------------------------------------------------------ Bitmap

NumClear(map) == NumSectors - Cardinality(map)
\* Bitmap::FindAndSet: the lowest clear bit, or -1.
FindFree(map) == IF Sectors \subseteq map THEN -1 ELSE Min(Sectors \ map)

\* ------------------------------------------------------------ Directory

\* A FindIndex that finds no name: every lookup says "not there".
FindIndexOfNone(t, name) == -1

FindIndex(t, name) ==
    LET hit == {i \in 1 .. NumDirEntries : t[i].inUse /\ t[i].name = name}
    IN IF hit = {} THEN -1 ELSE Min(hit)
Find(t, name) ==
    LET i == FindIndex(t, name) IN IF i = -1 THEN -1 ELSE t[i].sector
FreeSlot(t) ==
    LET free == {i \in 1 .. NumDirEntries : ~t[i].inUse}
    IN IF free = {} THEN -1 ELSE Min(free)
\* Directory::Add / AddDir: TRUE iff the name is new and a slot is free.
CanAdd(t, name) == FindIndex(t, name) = -1 /\ FreeSlot(t) # -1
AddEntry(t, name, sector, isDir) ==
    [t EXCEPT ![FreeSlot(t)] =
        [inUse |-> TRUE, name |-> name, sector |-> sector, isDir |-> isDir]]
\* Directory::Remove: the matching entry is no longer in use.
RemoveEntry(t, name) ==
    LET i == FindIndex(t, name) IN IF i = -1 THEN t ELSE [t EXCEPT ![i] = FreeEntry]

\* ------------------------------------------------------------ FileHeader

\* What FetchFrom(sector) finds: the header written there, or the header the
\* zero bytes of a never-written sector spell.
AsHeader(c) ==
    IF c.k = "hdr" THEN c
    ELSE [k |-> "hdr", numBytes |-> 0, numSectors |-> 0,
          dataSectors |-> [i \in 1 .. NumDirect |-> 0]]
\* A sector holding file content is no header: reading it as one is not modelled.
NotHeader(c) == c.k \in {"dir", "map"}

RECURSIVE AllocDirect(_, _, _)
\* The direct branch of Allocate: dataSectors[i] = FindAndSet() for i < numSectors.
AllocDirect(map, hdr, i) ==
    IF i > hdr.numSectors THEN [ret |-> "TRUE", map |-> map, hdr |-> hdr]
    ELSE IF FindFree(map) < 0 \/ i > NumDirect
    THEN [ret |-> "abort", map |-> map, hdr |-> hdr]
    ELSE AllocDirect(map \cup {FindFree(map)},
                     [hdr EXCEPT !.dataSectors[i] = FindFree(map)], i + 1)

\* The branch of Allocate a size takes: the share of one child header, or 0
\* for the direct branch.
Span(fileSize) ==
    IF fileSize > MaxFileSize3 THEN MaxFileSize3
    ELSE IF fileSize > MaxFileSize2 THEN MaxFileSize2
    ELSE IF fileSize > MaxFileSize THEN MaxFileSize
    ELSE 0

Allocated(ret, map, d, hdr) == [ret |-> ret, map |-> map, disk |-> d, hdr |-> hdr]

RECURSIVE Allocate(_, _, _)
RECURSIVE AllocChildren(_, _, _, _, _, _)
RECURSIVE AllocChild(_, _, _, _, _, _)
\* After next->Allocate: ASSERT it returned TRUE, next->WriteBack(s), i++.
AllocChild(c, s, hdr, i, fileSize, span) ==
    IF c.ret # "TRUE" THEN Allocated("abort", c.map, c.disk, hdr)
    ELSE AllocChildren(c.map, [c.disk EXCEPT ![s] = c.hdr],
                       [hdr EXCEPT !.dataSectors[i] = s], i + 1, fileSize - span, span)

\* The while loops with every child given the full share of its level, the
\* last one too.
AllocChildrenAllFull(map, d, hdr, i, fileSize, span) ==
    IF fileSize <= 0 THEN Allocated("TRUE", map, d, hdr)
    ELSE IF FindFree(map) < 0 \/ i > NumDirect THEN Allocated("abort", map, d, hdr)
    ELSE AllocChild(Allocate(map \cup {FindFree(map)}, d, span),
                    FindFree(map), hdr, i, fileSize, span)

\* One of the three while loops of Allocate: a sector for the child header
\* (ASSERTed to exist), the child allocated for its share of the size.
AllocChildren(map, d, hdr, i, fileSize, span) ==
    IF fileSize <= 0 THEN Allocated("TRUE", map, d, hdr)
    ELSE IF FindFree(map) < 0 \/ i > NumDirect THEN Allocated("abort", map, d, hdr)
    ELSE AllocChild(Allocate(map \cup {FindFree(map)}, d,
                             IF fileSize > span THEN span ELSE fileSize),
                    FindFree(map), hdr, i, fileSize, span)

SizedHeader(fileSize) ==
    [NewHeader EXCEPT !.numBytes = fileSize,
                      !.numSectors = divRoundUp(fileSize, SectorSize)]
OnDisk(a, d) == Allocated(a.ret, a.map, d, a.hdr)

\* FileHeader::Allocate.  ret is "TRUE", "FALSE", or "abort" when an ASSERT
\* stops the kernel; disk carries the child headers written on the way.
Allocate(map, d, fileSize) ==
    IF NumClear(map) < divRoundUp(fileSize, SectorSize)
    THEN Allocated("FALSE", map, d, SizedHeader(fileSize))
    ELSE IF Span(fileSize) > 0
    THEN AllocChildren(map, d, SizedHeader(fileSize), 1, fileSize, Span(fileSize))
    ELSE OnDisk(AllocDirect(map, SizedHeader(fileSize), 1), d)

\* Deallocate clearing the bit of the index instead of the bit of
\* dataSectors[i].
DataSectorOfIndex(hdr, i, g) == i - 1

Dealloc(ret, map, ub) == [ret |-> ret, map |-> map, ub |-> ub]
\* The sector number Deallocate reads at index i, counted from 1.
\* dataSectors has NumDirect entries: a read past them yields the word g
\* that happens to lie there.
DataSector(hdr, i, g) == IF i <= NumDirect THEN hdr.dataSectors[i] ELSE g

RECURSIVE DeallocLoop(_, _, _, _, _)
\* The loop of Deallocate.  Bitmap::Test ASSERTs its argument in range,
\* Deallocate that the bit is set; then the bit is cleared.
DeallocLoop(hdr, map, i, g, ub) ==
    IF i > hdr.numSectors THEN Dealloc("ok", map, ub)
    ELSE IF DataSector(hdr, i, g) \notin map
    THEN Dealloc("abort", map, ub \/ i > NumDirect)
    ELSE DeallocLoop(hdr, map \ {DataSector(hdr, i, g)}, i + 1, g, ub \/ i > NumDirect)

\* FileHeader::Deallocate.
Deallocate(hdr, map, g) == DeallocLoop(hdr, map, 1, g, FALSE)

RECURSIVE ByteToSector(_, _, _, _)
\* FileHeader::ByteToSector(offset) of the header hdr.  The three branches
\* of an indirect header call next->ByteToSector and end without a return
\* statement: what the caller receives is the value the inner call left
\* behind (kept) or any other value, -1 here.
ByteToSector(d, hdr, offset, kept) ==
    IF Span(hdr.numBytes) > 0
    THEN IF kept
         THEN ByteToSector(d, AsHeader(d[hdr.dataSectors[(offset \div Span(hdr.numBytes)) + 1]]),
                           offset - (offset \div Span(hdr.numBytes)) * Span(hdr.numBytes),
                           kept)
         ELSE -1
    ELSE hdr.dataSectors[(offset \div SectorSize) + 1]

\* ------------------------------------------------------------ open files

\* An OpenFile holds the header read when it was opened.  Uninit is a
\* pointer variable that was never assigned.
Uninit == [sector |-> -2, hdr |-> NewHeader, isDir |-> FALSE]
OpenFile(d, s) == [sector |-> s, hdr |-> AsHeader(d[s]), isDir |-> TRUE]
\* new OpenFile(directory->Find(name)), with the kind of the entry found.
OpenEntry(d, e) == [sector |-> e.sector, hdr |-> AsHeader(d[e.sector]), isDir |-> e.isDir]
\* The sector a value written at offset 0 of the file lands in.
FirstData(h) == h.hdr.dataSectors[1]
HasData(h) == h.hdr.numSectors >= 1 /\ FirstData(h) \in Sectors

\* Whether the file can be read as what it is opened for: its sector holds a
\* header and the header has a first data sector.
Readable(d, h) == h.sector \in Sectors /\ ~NotHeader(d[h.sector]) /\ HasData(h)

\* freeMapFile and directoryFile, opened by the constructor and kept open.
freeMapFile(d) == OpenFile(d, FreeMapSector)
directoryFile(d) == OpenFile(d, DirectorySector)

\* PersistentBitmap(freeMapFile, NumSectors) and Directory::FetchFrom(file).
IsMapFile(d, h) == Readable(d, h) /\ d[FirstData(h)].k = "map"
IsDirFile(d, h) == h.isDir /\ Readable(d, h) /\ d[FirstData(h)].k = "dir"
FetchMap(d) == d[FirstData(freeMapFile(d))].bits
FetchDir(d, h) == d[FirstData(h)].table
\* PersistentBitmap::WriteBack(freeMapFile) and Directory::WriteBack(file).
WriteMap(d, map) == [d EXCEPT ![FirstData(freeMapFile(d))] = MapData(map)]
WriteDir(d, h, t) == [d EXCEPT ![FirstData(h)] = DirData(t)]

\* What a value the call never set can be.  As a pointer (ptr): nothing
\* usable (-1), or the address of the OpenFile of a directory opened earlier,
\* named here by its header sector.  As a word read past the end of
\* dataSectors (word): any number; -1 stands for all that are no allocated
\* sector.
PointsToDir(d, g) == g \in Sectors /\ d[g].k = "hdr" /\ IsDirFile(d, OpenFile(d, g))
Garbage(d, ptr, word) ==
    {-1} \cup (IF ptr THEN {s \in Sectors : PointsToDir(d, s)} ELSE {})
         \cup (IF word THEN FetchMap(d) ELSE {})

\* ------------------------------------------------------------ FileSystem

\* The constructor without freeMap->Mark(FreeMapSector) and
\* freeMap->Mark(DirectorySector).
FormatUnmarked ==
    LET d0 == [s \in Sectors |-> Zero]
        mh == Allocate({}, d0, FreeMapFileSize)
        dh == Allocate(mh.map, d0, DirectoryFileSize)
        d1 == [d0 EXCEPT ![FreeMapSector] = mh.hdr, ![DirectorySector] = dh.hdr]
    IN WriteDir(WriteMap(d1, dh.map), OpenFile(d1, DirectorySector), NewTable)

\* FileSystem::FileSystem(format = TRUE).
Format ==
    LET m0 == {FreeMapSector, DirectorySector}
        d0 == [s \in Sectors |-> Zero]
        mh == Allocate(m0, d0, FreeMapFileSize)
        dh == Allocate(mh.map, d0, DirectoryFileSize)
        d1 == [d0 EXCEPT ![FreeMapSector] = mh.hdr, ![DirectorySector] = dh.hdr]
    IN WriteDir(WriteMap(d1, dh.map), directoryFile(d1), NewTable)

\* The working state of one call: the disk as written so far, the Directory
\* object, the openFileDir pointer, whether freeMap was ever assigned, the
\* local "success", and how the call stands: st is "run" or "abort" (an
\* ASSERT or a bad pointer stopped the kernel), ub records that the call
\* used a pointer it never set, ubw that it read past an array, junk that it read a sector as something that
\* is not modelled (file content as a header or as a directory table).
\* log is the disk after each write of the free map or of a directory table
\* made by Remove and RRemove, in the order of the writes.
Begin(d) ==
    [disk |-> d, dir |-> FetchDir(d, directoryFile(d)), ofd |-> Uninit,
     hasMap |-> FALSE, success |-> "unset", st |-> "run", ub |-> FALSE,
     ubw |-> FALSE, junk |-> ~IsDirFile(d, directoryFile(d)) \/ ~IsMapFile(d, freeMapFile(d)),
     log |-> <<>>]
\* A WriteBack has left the disk as d2.
Wrote(m, d2) == [m EXCEPT !.disk = d2, !.log = Append(m.log, d2)]
Stop(m) == [m EXCEPT !.st = "abort"]
Used(m) == [m EXCEPT !.ub = TRUE]
Junk(m) == [m EXCEPT !.junk = TRUE]
Off(m) == m.st = "abort" \/ m.junk
Result(m) ==
    [disk |-> m.disk, res |-> IF m.st = "abort" THEN "abort" ELSE m.success,
     ub |-> m.ub, ubw |-> m.ubw, junk |-> m.junk]

\* openFileDir = h; directory->FetchFrom(h).  used: a later component is
\* looked up in the table read here.
Enter(m, h, used) ==
    IF IsDirFile(m.disk, h) THEN [m EXCEPT !.ofd = h, !.dir = FetchDir(m.disk, h)]
    ELSE [m EXCEPT !.ofd = h, !.dir = NewTable, !.junk = m.junk \/ used]
\* The same on the entry found at index i.
Descend(m, i, used) == Enter(m, OpenEntry(m.disk, m.dir[i]), used)

\* directory->WriteBack(h): through an unassigned pointer the table goes
\* wherever the pointer's garbage g leads, or the kernel stops.
WriteDirVia(m, h, g) ==
    IF h = Uninit
    THEN IF ~PointsToDir(m.disk, g) THEN Stop(Used(m))
         ELSE Wrote(Used(m), WriteDir(m.disk, OpenFile(m.disk, g), m.dir))
    ELSE IF IsDirFile(m.disk, h) THEN Wrote(m, WriteDir(m.disk, h, m.dir))
    ELSE Junk(m)

\* directory->FetchFrom(h), likewise.
FetchDirVia(m, h, g) ==
    IF h = Uninit
    THEN IF ~PointsToDir(m.disk, g) THEN Stop(Used(m))
         ELSE [m EXCEPT !.ub = TRUE, !.dir = FetchDir(m.disk, OpenFile(m.disk, g))]
    ELSE IF IsDirFile(m.disk, h) THEN [m EXCEPT !.dir = FetchDir(m.disk, h)]
    ELSE Junk(m)

\* directory->WriteBack(count == 0 ? directoryFile : openFileDir).
WriteParent(m, count, g) ==
    IF count = 0 THEN Wrote(m, WriteDir(m.disk, directoryFile(m.disk), m.dir))
    ELSE WriteDirVia(m, m.ofd, g)

\* freeMap->WriteBack(freeMapFile), unless the call has stopped before it.
WriteMapOf(m, map) == IF Off(m) THEN m ELSE [m EXCEPT !.disk = WriteMap(m.disk, map)]

\* Create after hdr->Allocate returned a: the entry is in the Directory
\* object whatever a is; on TRUE the header, the directory and the map are
\* written, in this order.
CreateWrite(m, a, pch, sector, count, g) ==
    IF a.ret = "FALSE"
    THEN [m EXCEPT !.dir = AddEntry(m.dir, pch, sector, FALSE)]
    ELSE IF a.ret = "abort"
    THEN Stop([m EXCEPT !.dir = AddEntry(m.dir, pch, sector, FALSE), !.disk = a.disk])
    ELSE WriteMapOf(WriteParent([m EXCEPT !.success = "TRUE",
                                          !.dir = AddEntry(m.dir, pch, sector, FALSE),
                                          !.disk = [a.disk EXCEPT ![sector] = a.hdr]],
                                count, g),
                    a.map)

\* The else branch of Create's loop: the component is not in the directory.
\* m comes with hasMap set and success FALSE.
CreateEntry(m, map, pch, count, initialSize, g) ==
    IF FindFree(map) = -1 THEN m
    ELSE IF ~CanAdd(m.dir, pch) THEN m
    ELSE CreateWrite(m, Allocate(map \cup {FindFree(map)}, m.disk, initialSize),
                     pch, FindFree(map), count, g)

RECURSIVE CreateLoop(_, _, _, _, _)
\* The while loop of Create over the components strtok yields: a component
\* that is found is opened and read as a directory, one that is not found
\* is created, whether or not it is the last.
CreateLoop(m, name, count, initialSize, g) ==
    IF count >= Len(name) \/ Off(m) THEN m
    ELSE IF FindIndex(m.dir, name[count + 1]) # -1
    THEN CreateLoop(Descend([m EXCEPT !.success = "FALSE"],
                            FindIndex(m.dir, name[count + 1]), count + 1 < Len(name)),
                    name, count + 1, initialSize, g)
    ELSE CreateLoop(CreateEntry([m EXCEPT !.hasMap = TRUE, !.success = "FALSE"],
                                FetchMap(m.disk), name[count + 1], count, initialSize, g),
                    name, count + 1, initialSize, g)

\* A delete of a pointer that holds no live object (bad: the pointer was
\* never assigned, or its object is already deleted): the kernel stops or
\* goes on.
Delete(m, bad, g) ==
    IF m.st = "run" /\ bad THEN (IF g = -1 THEN Stop(Used(m)) ELSE Used(m)) ELSE m

\* "delete freeMap" at the end of Create: freeMap is unassigned when every
\* component was found.
CreateEnd(m, g) == Delete(m, ~m.hasMap, g)

\* FileSystem::Create(name, initialSize).
Create(d, name, initialSize, g) ==
    Result(CreateEnd(CreateLoop(Begin(d), name, 0, initialSize, g), g))

\* CreateDirNew without its last statement, newDir->WriteBack(openFileDir):
\* the new directory is opened and its table never written.
CreateDirNewUnwritten(m, sector) ==
    IF Off(m) THEN m ELSE [m EXCEPT !.ofd = OpenFile(m.disk, sector)]

\* CreateDir after the parent and the map are written: the new directory is
\* opened and an empty table written into it.
CreateDirNew(m, sector) ==
    IF Off(m) THEN m
    ELSE [m EXCEPT !.ofd = OpenFile(m.disk, sector),
                   !.disk = WriteDir(m.disk, OpenFile(m.disk, sector), NewTable)]

\* CreateDir after hdr->Allocate returned a.  "delete newDir" after a failed
\* Allocate runs on a pointer that holds no live object.
CreateDirWrite(m, a, pch, sector, count, g) ==
    IF a.ret = "FALSE" THEN Delete(m, TRUE, g)
    ELSE IF a.ret = "abort" THEN Stop([m EXCEPT !.disk = a.disk])
    ELSE CreateDirNew(
             WriteMapOf(WriteParent([m EXCEPT !.success = "TRUE",
                                              !.dir = AddEntry(m.dir, pch, sector, TRUE),
                                              !.disk = [a.disk EXCEPT ![sector] = a.hdr]],
                                    count, g),
                        a.map),
             sector)

\* The else branch of CreateDir's loop; m comes with success FALSE.
CreateDirEntry(m, map, pch, count, g) ==
    IF FindFree(map) = -1 THEN m
    ELSE IF ~CanAdd(m.dir, pch) THEN m
    ELSE CreateDirWrite(m, Allocate(map \cup {FindFree(map)}, m.disk, DirectoryFileSize),
                        pch, FindFree(map), count, g)

\* One turn of CreateDir's loop on the directory fetched for it.
CreateDirStep(m, pch, count, g) ==
    IF Off(m) THEN m
    ELSE IF FindIndex(m.dir, pch) # -1
    THEN [m EXCEPT !.ofd = OpenEntry(m.disk, m.dir[FindIndex(m.dir, pch)]),
                   !.success = "FALSE"]
    ELSE CreateDirEntry([m EXCEPT !.success = "FALSE"], FetchMap(m.disk), pch, count, g)

RECURSIVE CreateDirLoop(_, _, _, _)
\* The while loop of CreateDir: the directory is fetched anew for every
\* component, from the root for the first and from openFileDir after it.
CreateDirLoop(m, name, count, g) ==
    IF count >= Len(name) \/ Off(m) THEN m
    ELSE CreateDirLoop(CreateDirStep(IF count = 0 THEN m ELSE FetchDirVia(m, m.ofd, g),
                                     name[count + 1], count, g),
                       name, count + 1, g)

\* "delete openFileDir" at the end of CreateDir: unassigned when no component
\* was found or created.
CreateDirEnd(m, g) == Delete(m, m.ofd = Uninit, g)

\* FileSystem::CreateDir(name).
CreateDir(d, name, g) == Result(CreateDirEnd(CreateDirLoop(Begin(d), name, 0, g), g))

RECURSIVE OpenLoop(_, _, _)
\* The while loop of Open: a component that is found is opened and read as
\* a directory; one that is not found is passed over.
OpenLoop(m, name, count) ==
    IF count >= Len(name) THEN m
    ELSE IF FindIndex(m.dir, name[count + 1]) >= 1
    THEN OpenLoop(Descend(m, FindIndex(m.dir, name[count + 1]), count + 1 < Len(name)),
                  name, count + 1)
    ELSE OpenLoop(m, name, count + 1)

Opened(m) ==
    [disk |-> m.disk, res |-> IF m.ofd = Uninit THEN "unset" ELSE "file",
     sector |-> m.ofd.sector, ub |-> m.ofd = Uninit, ubw |-> FALSE, junk |-> m.junk]

\* FileSystem::Open(name): the pointer returned, as the header sector of the
\* file it opens; "unset" (-2) is the pointer that was never assigned.
Open(d, name) == Opened(OpenLoop(Begin(d), name, 0))

\* ------------------------------------------------------------ open-file ids

\* OpenTable[fd] of filesys.h, as the header sector of the file a slot is
\* bound to.  NULL: the slot is free.  Wild: the slot holds the pointer Open
\* never assigned, when that pointer is not NULL.  The loop of OpenId also
\* reaches slot NumOpen + 1.
NULL == -1
Wild == Uninit.sector
Ids == 0 .. (NumOpen + 1)
NoTable == [fd \in Ids |-> NULL]

\* What `file` holds after OpenFile* file = this->Open(name); ptr is the
\* value of the pointer Open never assigned.
Returned(r, ptr) == IF r.res = "unset" THEN ptr ELSE r.sector

RECURSIVE OpenIdLoop(_, _, _, _)
\* while(fd <= 20) { fd ++; if(!OpenTable[fd]) { OpenTable[fd] = file; break; } }
\* with fd the value the test of the while sees.  Slot NumOpen + 1 is read
\* only when every id is bound, and reads as `beyond`.
OpenIdLoop(table, file, fd, beyond) ==
    IF fd > NumOpen THEN [table |-> table, fd |-> fd]
    ELSE IF (IF fd + 1 > NumOpen THEN beyond ELSE table[fd + 1]) = NULL
    THEN [table |-> [table EXCEPT ![fd + 1] = file], fd |-> fd + 1]
    ELSE OpenIdLoop(table, file, fd + 1, beyond)

\* ASSERT(fd <= 20); return fd;
OpenIdEnd(l, file, junk) ==
    [table |-> l.table, fd |-> l.fd, file |-> file, junk |-> junk,
     res |-> IF l.fd <= NumOpen THEN "fd" ELSE "abort"]

\* FileSystem::OpenId(name).
OpenId(d, table, name, ptr, beyond) ==
    OpenIdEnd(OpenIdLoop(table, Returned(Open(d, name), ptr), 0, beyond),
              Returned(Open(d, name), ptr), Open(d, name).junk)

\* FileSystem::kclose(id).  delete of the pointer Open never assigned either
\* stops the kernel (crash) or returns.
kclose(table, id, crash) ==
    IF table[id] = NULL THEN [table |-> table, res |-> "0"]
    ELSE IF table[id] = Wild /\ crash THEN [table |-> table, res |-> "abort"]
    ELSE [table |-> [table EXCEPT ![id] = NULL], res |-> "1"]

\* After Deallocate returned da: Clear(sector), directory->Remove(name),
\* freeMap->WriteBack(freeMapFile).
Unlinked(m, da, name, sector) ==
    IF da.ret = "abort" THEN Stop([m EXCEPT !.ubw = m.ubw \/ da.ub])
    ELSE Wrote([m EXCEPT !.ubw = m.ubw \/ da.ub, !.dir = RemoveEntry(m.dir, name)],
               WriteMap(m.disk, da.map \ {sector}))

\* fileHdr->FetchFrom(sector) and Deallocate on a fresh copy of the map, then
\* the above: the steps Remove and RRemove share.  The directory is left
\* for the caller to write back.
Unlink(m, name, g) ==
    IF Off(m) THEN m
    ELSE IF Find(m.dir, name) \notin Sectors THEN Stop(m)
    ELSE IF NotHeader(m.disk[Find(m.dir, name)]) THEN Junk(m)
    ELSE Unlinked(m, Deallocate(AsHeader(m.disk[Find(m.dir, name)]), FetchMap(m.disk), g),
                  name, Find(m.dir, name))

\* directory->WriteBack(directoryFile) and return TRUE.
RemoveEnd(m) ==
    IF Off(m) THEN m
    ELSE [m EXCEPT !.success = "TRUE",
                   !.disk = WriteDir(m.disk, directoryFile(m.disk), m.dir)]

\* Remove without the test of sector == -1.
RemoveUnchecked(d, name, abs, g) == Result(RemoveEnd(Unlink(Begin(d), name[1], g)))

\* FileSystem::Remove(name): the whole string is looked up in the root
\* directory.  Entry names are strtok tokens and hold no '/', so only a
\* string of one component and no leading '/' (abs = FALSE) can match.
Remove(d, name, abs, g) ==
    IF abs \/ Len(name) # 1 \/ Find(Begin(d).dir, name[1]) = -1
    THEN Result([Begin(d) EXCEPT !.success = "FALSE"])
    ELSE Result(RemoveEnd(Unlink(Begin(d), name[1], g)))

\* The state of RRemove's first walk: m, whether a component was missing
\* (the walk returns FALSE), ButtomIsFile and fileNum.
Walk(m, found, bottomIsFile, fileNum) ==
    [m |-> m, found |-> found, bottomIsFile |-> bottomIsFile, fileNum |-> fileNum]

RECURSIVE RRScan(_, _, _, _)
\* The for loop inside RRemove's first walk, i counted from 1: every in-use
\* entry named pch is looked at, in the table as it stands when i reaches
\* it; a directory is opened by "place" and read over the table.
RRScan(w, pch, place, i) ==
    IF i > NumDirEntries \/ w.m.junk THEN w
    ELSE IF w.m.dir[i].inUse /\ w.m.dir[i].name = pch
    THEN IF w.m.dir[i].isDir
         THEN RRScan([w EXCEPT !.m = Enter(w.m, OpenFile(w.m.disk, place), TRUE)],
                     pch, place, i + 1)
         ELSE RRScan([w EXCEPT !.bottomIsFile = TRUE], pch, place, i + 1)
    ELSE RRScan(w, pch, place, i + 1)

\* fileNum++ when another component follows.
Counted(w, more) == IF more THEN [w EXCEPT !.fileNum = w.fileNum + 1] ELSE w

RECURSIVE RRWalk(_, _, _)
\* The first while loop of RRemove (Nfirst = 0), k counted from 1.
RRWalk(w, name, k) ==
    IF k > Len(name) \/ w.m.junk THEN w
    ELSE IF Find(w.m.dir, name[k]) = -1 THEN [w EXCEPT !.found = FALSE]
    ELSE RRWalk(Counted(RRScan(w, name[k], Find(w.m.dir, name[k]), 1), k < Len(name)),
                name, k + 1)

\* What an activation takes over from the recursive one it called: the disk
\* and how the call stands; its Directory and openFileDir are its own.
Back(m, sub) ==
    [m EXCEPT !.disk = sub.disk, !.st = sub.st, !.ub = sub.ub, !.ubw = sub.ubw,
              !.junk = sub.junk, !.log = sub.log]

\* Unlink the entry and write the table through openFileDir.
WriteBackDir(m, g) == IF Off(m) THEN m ELSE WriteDirVia(m, m.ofd, g)
RRUnlink(m, name, g) == WriteBackDir(Unlink(m, name, g), g)

RECURSIVE RRLoop(_, _, _, _, _)
RECURSIVE RRSub(_, _, _, _)
\* The second for loop with the two steps of a directory entry the other way
\* round: the entry is unlinked first and the directory emptied after.
RRLoopParentFirst(m, i, bottomIsFile, depth, g) ==
    IF i > NumDirEntries \/ Off(m) THEN m
    ELSE IF ~m.dir[i].inUse THEN RRLoop(m, i + 1, bottomIsFile, depth, g)
    ELSE IF m.dir[i].isDir /\ ~bottomIsFile
    THEN RRLoop(Back(RRUnlink(m, m.dir[i].name, g),
                     RRSub(RRUnlink(m, m.dir[i].name, g),
                           Find(m.dir, m.dir[i].name), depth + 1, g)),
                i + 1, bottomIsFile, depth, g)
    ELSE IF ~m.dir[i].isDir
    THEN RRLoop(RRUnlink(m, m.dir[i].name, g), i + 1, bottomIsFile, depth, g)
    ELSE RRLoop(m, i + 1, bottomIsFile, depth, g)

\* The second for loop of RRemove, i counted from 1, over the Directory
\* object of this activation: a directory entry is emptied by the recursive
\* call and then unlinked, a file entry is unlinked, and after each the
\* table goes back through openFileDir.
RRLoop(m, i, bottomIsFile, depth, g) ==
    IF i > NumDirEntries \/ Off(m) THEN m
    ELSE IF ~m.dir[i].inUse THEN RRLoop(m, i + 1, bottomIsFile, depth, g)
    ELSE IF m.dir[i].isDir /\ ~bottomIsFile
    THEN RRLoop(RRUnlink(Back(m, RRSub(m, Find(m.dir, m.dir[i].name), depth + 1, g)),
                         m.dir[i].name, g),
                i + 1, bottomIsFile, depth, g)
    ELSE IF ~m.dir[i].isDir
    THEN RRLoop(RRUnlink(m, m.dir[i].name, g), i + 1, bottomIsFile, depth, g)
    ELSE RRLoop(m, i + 1, bottomIsFile, depth, g)

\* RRemove(name, place, 1): the recursive activation.  It has a Directory
\* and an openFileDir of its own; a nest deeper than the disk has sectors
\* never returns.
RRSub(m, place, depth, g) ==
    IF depth > NumSectors THEN Stop(m)
    ELSE IF place > 0
    THEN RRLoop(Enter(m, OpenFile(m.disk, place), TRUE), 1, FALSE, depth, g)
    ELSE RRLoop([m EXCEPT !.ofd = Uninit, !.dir = NewTable], 1, FALSE, depth, g)

RECURSIVE RRWalk2(_, _, _, _)
\* The while loop of RRemove's last part: the first fileNum components are
\* walked again from the root.
RRWalk2(w, name, count, fileNum) ==
    IF count >= fileNum \/ count >= Len(name) \/ w.m.junk THEN w
    ELSE IF FindIndex(w.m.dir, name[count + 1]) = -1 THEN [w EXCEPT !.found = FALSE]
    ELSE IF Find(w.m.dir, name[count + 1]) > 0
    THEN RRWalk2([w EXCEPT !.m = Descend(w.m, FindIndex(w.m.dir, name[count + 1]), TRUE)],
                 name, count + 1, fileNum)
    ELSE RRWalk2(w, name, count + 1, fileNum)

\* After the second walk: the name's own entry is unlinked from its parent,
\* which is written through directoryFile when the name has one component
\* and through openFileDir otherwise.
WriteParentDir(m, fileNum, g) == IF Off(m) THEN m ELSE WriteParent(m, fileNum, g)
RRLastUnlink(w, pch2, fileNum, g) ==
    IF ~w.found THEN [w.m EXCEPT !.success = "FALSE"]
    ELSE WriteParentDir(Unlink(w.m, pch2, g), fileNum, g)

\* The last part of RRemove (Nfirst = 0, the name is no plain file).
RRLast(m, name, fileNum, g) ==
    RRLastUnlink(RRWalk2(Walk([m EXCEPT !.dir = FetchDir(m.disk, directoryFile(m.disk))],
                              TRUE, FALSE, fileNum),
                         name, 0, fileNum),
                 name[fileNum + 1], fileNum, g)

\* The last part, unless the loop before it stopped the kernel.
RRLastPart(m, name, fileNum, g) == IF Off(m) THEN m ELSE RRLast(m, name, fileNum, g)

\* RRemove after its first walk.
RRemoveFrom(w, name, g) ==
    IF ~w.found \/ w.m.junk THEN [w.m EXCEPT !.success = "FALSE"]
    ELSE IF w.bottomIsFile THEN RRLoop(w.m, 1, TRUE, 0, g)
    ELSE RRLastPart(RRLoop(w.m, 1, FALSE, 0, g), name, w.fileNum, g)

\* FileSystem::RRemove(name, place, 0).  The function ends without a return
\* statement: the caller is handed no value ("unset") unless a component
\* was missing ("FALSE").
RRemove(d, name, g) ==
    Result(RRemoveFrom(RRWalk(Walk(Begin(d), TRUE, FALSE, 0), name, 1), name, g))
\* The same call, as the disk it left after each of its writes.
RRemoveLog(d, name, g) ==
    RRemoveFrom(RRWalk(Walk(Begin(d), TRUE, FALSE, 0), name, 1), name, g).log

\* ------------------------------------------------------------ the machine

\* disk: the disk image.  halted: an ASSERT or a bad pointer has stopped the
\* kernel.  nops: calls made so far.  last and before are a record of the
\* call made last and the disk image it started on.
VARIABLES disk, last, before, nops, halted, OpenTable
vars == <<disk, last, before, nops, halted, OpenTable>>

\* The call made last: its arguments (abs: the string began with '/'), what
\* it returned ("abort": it did not return), and for Open the file returned.
\* For OpenId: size is the id returned ("fd"), sector the pointer bound.
\* For kclose: size is the id it was called with.
Called(op, name, abs, size, res, sector) ==
    [op |-> op, name |-> name, abs |-> abs, size |-> size, res |-> res,
     sector |-> sector]

Init ==
    /\ disk = Format
    /\ last = Called("Format", <<>>, TRUE, 0, "TRUE", -1)
    /\ before = Format
    /\ nops = 0
    /\ halted = FALSE
    /\ OpenTable = NoTable

\* A call runs to its end.  The garbage g is drawn only when the call reads it.
Finish(r, op, name, abs, size, sector) ==
    /\ ~r.junk
    /\ disk' = r.disk
    /\ before' = disk
    /\ last' = Called(op, name, abs, size, r.res, sector)
    /\ halted' = (r.res = "abort")
    /\ nops' = nops + 1
    /\ UNCHANGED OpenTable

DoCreate(name, size) ==
    /\ ~halted /\ nops < MaxOps
    /\ \E r0 \in {Create(disk, name, size, -1)} :
         \E g \in Garbage(disk, r0.ub, r0.ubw) :
           \E r \in {IF g = -1 THEN r0 ELSE Create(disk, name, size, g)} :
             Finish(r, "Create", name, TRUE, size, -1)

DoCreateDir(name) ==
    /\ ~halted /\ nops < MaxOps
    /\ \E r0 \in {CreateDir(disk, name, -1)} :
         \E g \in Garbage(disk, r0.ub, r0.ubw) :
           \E r \in {IF g = -1 THEN r0 ELSE CreateDir(disk, name, g)} :
             Finish(r, "CreateDir", name, TRUE, 0, -1)

DoOpen(name) ==
    /\ ~halted /\ nops < MaxOps
    /\ \E r \in {Open(disk, name)} : Finish(r, "Open", name, TRUE, 0, r.sector)

DoRemove(name, abs) ==
    /\ ~halted /\ nops < MaxOps
    /\ \E r0 \in {Remove(disk, name, abs, -1)} :
         \E g \in Garbage(disk, r0.ub, r0.ubw) :
           \E r \in {IF g = -1 THEN r0 ELSE Remove(disk, name, abs, g)} :
             Finish(r, "Remove", name, abs, 0, -1)

DoRRemove(name) ==
    /\ ~halted /\ nops < MaxOps
    /\ \E r0 \in {RRemove(disk, name, -1)} :
         \E g \in Garbage(disk, r0.ub, r0.ubw) :
           \E r \in {IF g = -1 THEN r0 ELSE RRemove(disk, name, g)} :
             Finish(r, "RRemove", name, TRUE, 0, -1)

DoOpenId(name) ==
    /\ ~halted /\ nops < MaxCalls
    /\ \E ptr \in {NULL, Wild}, beyond \in {NULL, Wild} :
         \E r \in {OpenId(disk, OpenTable, name, ptr, beyond)} :
           /\ ~r.junk
           /\ OpenTable' = r.table
           /\ last' = Called("OpenId", name, TRUE, r.fd, r.res, r.file)
           /\ halted' = (r.res = "abort")
           /\ before' = disk
           /\ nops' = nops + 1
           /\ UNCHANGED disk

DoClose(id) ==
    /\ ~halted /\ nops < MaxCalls
    /\ \E crash \in BOOLEAN :
         \E r \in {kclose(OpenTable, id, crash)} :
           /\ OpenTable' = r.table
           /\ last' = Called("kclose", <<>>, TRUE, id, r.res, OpenTable[id])
           /\ halted' = (r.res = "abort")
           /\ before' = disk
           /\ nops' = nops + 1
           /\ UNCHANGED disk

\* What RList has printed: the directories listed by directory->List(), each
\* as the header sector of its file, in order; st is "run", "junk" (a file
\* that holds no table was read as a directory) or "loop" (the nest of calls
\* is deeper than the disk has sectors: the call never returns).
Listing(out, st) == [out |-> out, st |-> st]

RECURSIVE RListWalk(_, _, _)
\* The while loop of RList (Nfirst = 0), k counted from 1: a component that
\* is found is opened and read as a directory, one that is not is passed over.
RListWalk(m, name, k) ==
    IF k > Len(name) \/ m.junk THEN m
    ELSE RListWalk(IF Find(m.dir, name[k]) > 0
                   THEN Enter(m, OpenFile(m.disk, Find(m.dir, name[k])), TRUE)
                   ELSE m,
                   name, k + 1)

RECURSIVE RListLoop(_, _, _, _, _)
RECURSIVE RListSub(_, _, _, _)
\* The second for loop of RList, i counted from 1: RList(name, sector, 1)
\* for every in-use entry that is a directory.  (The first for loop only
\* tells whether there is one.)
RListLoop(d, t, i, l, depth) ==
    IF i > NumDirEntries \/ l.st # "run" THEN l
    ELSE RListLoop(d, t, i + 1,
                   IF t[i].inUse /\ t[i].isDir
                   THEN RListSub(d, Find(t, t[i].name), l, depth + 1)
                   ELSE l,
                   depth)

\* RList(name, place, 1): the directory at place is read and listed, then
\* gone through.
RListSub(d, place, l, depth) ==
    IF depth > NumSectors THEN Listing(l.out, "loop")
    ELSE IF place <= 0 THEN l
    ELSE IF ~IsDirFile(d, OpenFile(d, place)) THEN Listing(l.out, "junk")
    ELSE RListLoop(d, FetchDir(d, OpenFile(d, place)), 1,
                   Listing(Append(l.out, place), "run"), depth)

\* The directory listed first: the last one the walk opened, the root when
\* it opened none.
RListFirst(m) ==
    IF m.junk THEN Listing(<<>>, "junk")
    ELSE RListLoop(m.disk, m.dir, 1,
                   Listing(<<IF m.ofd = Uninit THEN DirectorySector ELSE m.ofd.sector>>,
                           "run"), 0)

\* FileSystem::RList(name, place, 0).
RList(d, name) == RListFirst(RListWalk(Begin(d), name, 1))

DoRList(name) ==
    /\ ~halted /\ nops <= MaxOps
    /\ RList(disk, name).st # "junk"
    /\ last' = Called("RList", name, TRUE, 0, RList(disk, name).st, -1)
    /\ before' = disk
    /\ UNCHANGED <<disk, nops, halted, OpenTable>>

\* FileSystem::FileSystem(format = FALSE): the kernel is started again on the
\* disk as it is, with a new open-file table.
Reboot ==
    /\ halted
    /\ halted' = FALSE
    /\ last' = Called("Boot", <<>>, TRUE, 0, "TRUE", -1)
    /\ before' = disk
    /\ OpenTable' = NoTable
    /\ UNCHANGED <<disk, nops>>

Next ==
    \/ \E name \in Paths, size \in Sizes : DoCreate(name, size)
    \/ \E name \in Paths : DoCreateDir(name)
    \/ \E name \in Paths : DoOpen(name)
    \/ \E name \in Paths, abs \in BOOLEAN : DoRemove(name, abs)
    \/ \E name \in Paths : DoRRemove(name)
    \/ Reboot

Spec == Init /\ [][Next]_vars

\* The calls that make and remove directories, and the listing of them.
\* A listing shows no sizes: the plain files are empty ones.
ListNext ==
    \/ \E name \in Paths : DoCreate(name, 0)
    \/ \E name \in Paths : DoCreateDir(name)
    \/ \E name \in Paths : DoRRemove(name)
    \/ \E name \in Paths : DoRList(name)
    \/ Reboot

ListSpec == Init /\ [][ListNext]_vars

\* The calls of the open-file table (SysOpen, SysClose) on a disk that holds
\* at most MaxMade files.
HandleNext ==
    \/ \E name \in Paths, size \in Sizes : nops < MaxMade /\ DoCreate(name, size)
    \/ \E name \in Paths : nops < MaxMade /\ DoCreateDir(name)
    \/ \E name \in Paths : DoOpenId(name)
    \/ \E id \in 0 .. NumOpen : DoClose(id)
    \/ Reboot

HandleSpec == Init /\ [][HandleNext]_vars

\* The calls of the open-file table together with the calls that remove
\* files, on a disk that holds what one call of Create or CreateDir made:
\* empty files, files of one data sector, directories.
ShareNext ==
    \/ \E name \in Paths, size \in {0, 1} : nops < MaxMade /\ DoCreate(name, size)
    \/ \E name \in Paths : nops < MaxMade /\ DoCreateDir(name)
    \/ \E name \in Paths : DoOpenId(name)
    \/ \E id \in 0 .. NumOpen : DoClose(id)
    \/ \E name \in Paths, abs \in BOOLEAN : DoRemove(name, abs)
    \/ \E name \in Paths : DoRRemove(name)
    \/ Reboot

ShareSpec == Init /\ [][ShareNext]_vars

\* ------------------------------------------------------------ what the disk holds

\* The root directory and the number of clear bits, as read from the disk.
Root(d) == FetchDir(d, directoryFile(d))
Free(d) == NumClear(FetchMap(d))

\* Whether entry e leads to a directory: it is of directory kind and its
\* file holds a directory table.
IsDirectory(d, e) == e.inUse /\ e.isDir /\ IsDirFile(d, OpenEntry(d, e))
\* The table of the directory e leads to; no entry at all where e leads to
\* no directory.
TableOf(d, e) == IF IsDirectory(d, e) THEN FetchDir(d, OpenEntry(d, e)) ELSE NewTable

RECURSIVE Lookup(_, _, _, _)
\* The entry that the components k .. Len(name) lead to from table t, each
\* looked up in the directory the one before it names; FreeEntry when one
\* of them is absent.
Lookup(d, t, name, k) ==
    IF FindIndex(t, name[k]) = -1 THEN FreeEntry
    ELSE IF k = Len(name) THEN t[FindIndex(t, name[k])]
    ELSE Lookup(d, TableOf(d, t[FindIndex(t, name[k])]), name, k + 1)
\* The entry a path leads to from the root.
Resolve(d, name) == Lookup(d, Root(d), name, 1)
Prefix(name, k) == SubSeq(name, 1, k)
Exists(d, name) == Resolve(d, name).inUse
\* The directory a path's last component is looked up in.
ParentTable(d, name) ==
    IF Len(name) = 1 THEN Root(d) ELSE TableOf(d, Resolve(d, Prefix(name, Len(name) - 1)))

\* Number of child headers Allocate gives a header of numBytes bytes.
Children(numBytes) ==
    IF Span(numBytes) = 0 THEN 0 ELSE divRoundUp(numBytes, Span(numBytes))

RECURSIVE Tree(_, _, _)
\* The sectors the header in sector s owns as Allocate laid them out: s, the
\* data sectors of a direct header, the child headers of an indirect one and
\* all they own.  level bounds the nest.
Tree(d, s, level) ==
    IF s \notin Sectors THEN {}
    ELSE IF d[s].k # "hdr" \/ level = 0 THEN {s}
    ELSE IF Span(d[s].numBytes) = 0
    THEN {s} \cup ({d[s].dataSectors[i] : i \in 1 .. d[s].numSectors} \cap Sectors)
    ELSE {s} \cup UNION {Tree(d, d[s].dataSectors[i], level - 1) :
                           i \in 1 .. Children(d[s].numBytes)}
\* The sectors of the file or directory a path leads to.
Owned(d, name) == Tree(d, Resolve(d, name).sector, 3)
\* Sectors 0 and 1 and the data sectors of the free map and the root directory.
System(d) == Tree(d, FreeMapSector, 1) \cup Tree(d, DirectorySector, 1)

RECURSIVE Need(_)
\* Sectors a new file of fileSize bytes takes: its header, its data sectors
\* and the child headers at every level.
Need(fileSize) ==
    IF Span(fileSize) = 0 THEN 1 + divRoundUp(fileSize, SectorSize)
    ELSE 1 + (fileSize \div Span(fileSize)) * Need(Span(fileSize))
           + (IF fileSize % Span(fileSize) = 0 THEN 0 ELSE Need(fileSize % Span(fileSize)))

\* The sectors that hold a directory table or the free map, with what they hold.
Meta(d) == [s \in Sectors |-> IF d[s].k \in {"dir", "map"} THEN d[s] ELSE Zero]

\* Every component of the path but the last leads to a directory.
Resolves(d, name) ==
    \A k \in 1 .. (Len(name) - 1) : IsDirectory(d, Resolve(d, Prefix(name, k)))

\* ------------------------------------------------------------ the offset map

\* hdr->ByteToSector(offset) on the header of the file the path leads to, for
\* an offset within the file, as OpenFile::ReadAt and WriteAt call it.
DoByteToSector(name, offset) ==
    /\ ~halted /\ nops < MaxCalls
    /\ Exists(disk, name)
    /\ offset < OpenEntry(disk, Resolve(disk, name)).hdr.numBytes
    /\ \E kept \in BOOLEAN :
         last' = Called("ByteToSector", name, TRUE, offset, "sector",
                        ByteToSector(disk, OpenEntry(disk, Resolve(disk, name)).hdr,
                                     offset, kept))
    /\ before' = disk
    /\ nops' = nops + 1
    /\ UNCHANGED <<disk, halted, OpenTable>>

\* Files of every shape of header, and the offsets within them.
MapNext ==
    \/ \E name \in Paths, size \in Sizes \cup {MaxFileSize} :
          nops < MaxMade /\ DoCreate(name, size)
    \/ \E name \in Paths, offset \in 0 .. MaxFileSize2 : DoByteToSector(name, offset)

MapSpec == Init /\ [][MapNext]_vars

\* ------------------------------------------------------------ claims

\* C1: deallocation completeness.  When a file created in the root under a
\* one-component name, of any of the sizes, is removed by the next call
\* under that name, the remove returns TRUE and the disk has as many free
\* sectors as before the create.
DeallocationCompleteness ==
    [][(/\ last.op = "Create" /\ last.res = "TRUE" /\ Len(last.name) = 1
        /\ last'.op = "Remove" /\ last'.name = last.name /\ ~last'.abs)
       => (last'.res = "TRUE" /\ Free(disk') = Free(before))]_vars

\* C1, the case that holds: a direct file is created and removed, and the
\* free count is back where it was.
DirectFileRemoved ==
    /\ last.op = "Remove" /\ last.res = "TRUE" /\ nops = 2
    /\ Free(disk) = Free(Format) /\ Free(before) < Free(disk)

\* C2: allocation exclusivity.  After any sequence of calls the sectors owned
\* by any two files or directories (there are no links: two paths are two
\* files) are disjoint, and disjoint from sectors 0 and 1 and the data
\* sectors of the free map and of the root directory.
AllocationExclusivity ==
    \A p \in Paths :
        Exists(disk, p) =>
            /\ Owned(disk, p) \cap System(disk) = {}
            /\ \A q \in Paths \ {p} :
                   Exists(disk, q) => Owned(disk, p) \cap Owned(disk, q) = {}

\* Some component of the path before the last is absent from its directory.
MissingIntermediate(d, name) ==
    \E k \in 1 .. (Len(name) - 1) : ~Exists(d, Prefix(name, k))

\* C3: Create of a path with an absent intermediate component returns FALSE,
\* creates nothing under the absent component, and leaves the free map and
\* every directory on the disk as they were.
CreateMissingIntermediateFails ==
    [][(last'.op = "Create" /\ MissingIntermediate(disk, last'.name))
       => (/\ last'.res = "FALSE"
           /\ \A k \in 1 .. Len(last'.name) :
                  Exists(disk', Prefix(last'.name, k)) => Exists(disk, Prefix(last'.name, k))
           /\ Meta(disk') = Meta(disk))]_vars

\* Number of in-use entries of table t with the name.
Count(t, name) == Cardinality({i \in 1 .. NumDirEntries : t[i].inUse /\ t[i].name = name})

\* C4: Create of a path whose intermediate components are directories and
\* whose last component is in the directory they lead to returns FALSE; that
\* directory then holds exactly one in-use entry of the name, with the sector
\* it had, and the free map on the disk is unchanged.
CreateExistingFails ==
    [][(last'.op = "Create" /\ Resolves(disk, last'.name) /\ Exists(disk, last'.name))
       => (/\ last'.res = "FALSE"
           /\ Count(ParentTable(disk', last'.name), last'.name[Len(last'.name)]) = 1
           /\ Resolve(disk', last'.name).sector = Resolve(disk, last'.name).sector
           /\ FetchMap(disk') = FetchMap(disk))]_vars

\* C4, the outcome the claim describes: the call returned FALSE on a path
\* of two components, and the disk is as it was.
CreateExistingReturnedFalse ==
    /\ last.op = "Create" /\ last.res = "FALSE" /\ Len(last.name) = 2
    /\ Resolves(before, last.name) /\ Exists(before, last.name)
    /\ Count(ParentTable(disk, last.name), last.name[2]) = 1
    /\ disk = before

\* The file or directory at the path is on disk d2 as it is on disk d: the
\* same entry and the same content in every sector it owns.
Intact(d, d2, name) ==
    /\ Resolve(d2, name) = Resolve(d, name)
    /\ \A s \in Owned(d, name) : d2[s] = d[s]

\* C5: out of space.  Create of a new file in a directory the path leads to,
\* when fewer sectors are free than the file needs, returns FALSE, and every
\* file and directory there was is intact.
OutOfSpaceFails ==
    [][(/\ last'.op = "Create" /\ Resolves(disk, last'.name)
        /\ ~Exists(disk, last'.name) /\ Free(disk) < Need(last'.size))
       => (/\ last'.res = "FALSE"
           /\ \A p \in Paths : Exists(disk, p) => Intact(disk, disk', p))]_vars

\* C5, the case that holds: fewer sectors are free than the data alone
\* takes, and the call returns FALSE with the disk as it was.
OutOfSpaceForData ==
    /\ last.op = "Create" /\ last.res = "FALSE" /\ ~Exists(before, last.name)
    /\ Len(last.name) = 1 /\ \E p \in Paths : Exists(before, p)
    /\ Free(before) - 1 < divRoundUp(last.size, SectorSize)
    /\ disk = before

\* C6: commit or discard.  A Create that returns FALSE leaves every sector
\* of the disk as it was.
FailedCreateLeavesDisk ==
    [][(last'.op = "Create" /\ last'.res = "FALSE") => disk' = disk]_vars

\* C7: Open of a path with an absent component returns no file: neither a
\* handle nor a pointer that was never set.
OpenAbsentReturnsNull ==
    (last.op = "Open" /\ \E k \in 1 .. Len(last.name) : ~Exists(before, Prefix(last.name, k)))
        => last.res = "NULL"

\* C8: Remove of a path, with or without a leading '/', that leads to a plain
\* file at any depth returns TRUE, clears every sector the file owns in the
\* free map on the disk and takes the entry out of its directory.
RemoveAtAnyDepth ==
    [][(/\ last'.op = "Remove" /\ Resolves(disk, last'.name)
        /\ Exists(disk, last'.name) /\ ~Resolve(disk, last'.name).isDir)
       => (/\ last'.res = "TRUE"
           /\ ~Exists(disk', last'.name)
           /\ Owned(disk, last'.name) \cap FetchMap(disk') = {})]_vars

\* C8, the case that holds: a direct file in the root, named without '/'.
RemoveInRoot ==
    /\ last.op = "Remove" /\ last.res = "TRUE" /\ Len(last.name) = 1
    /\ Exists(before, last.name) /\ ~Exists(disk, last.name)
    /\ Owned(before, last.name) \cap FetchMap(disk) = {}

\* The sectors owned by the directory at the path and by all beneath it.
Subtree(d, name) ==
    UNION {Owned(d, p) : p \in {q \in Paths : /\ Len(q) >= Len(name)
                                              /\ Prefix(q, Len(name)) = name
                                              /\ Exists(d, q)}}

\* C9: recursive remove.  RRemove of a path that leads to a directory takes
\* the path's entry out of its parent, so that nothing is reachable through
\* it, and frees exactly the sectors of the directory and of all beneath it.
RecursiveRemoveFreesSubtree ==
    [][(/\ last'.op = "RRemove" /\ Resolves(disk, last'.name)
        /\ IsDirectory(disk, Resolve(disk, last'.name)))
       => (/\ ~Exists(disk', last'.name)
           /\ FetchMap(disk') = FetchMap(disk) \ Subtree(disk, last'.name))]_vars

\* C9, the case that holds: a directory with a directory in it is removed
\* and the disk has as many free sectors as a fresh one.
RecursiveRemoveOfNest ==
    /\ last.op = "RRemove" /\ last.res = "unset" /\ ~Exists(disk, last.name)
    /\ \E p \in Paths : Len(p) > Len(last.name) /\ Exists(before, p)
    /\ FetchMap(disk) = FetchMap(before) \ Subtree(before, last.name)
    /\ Free(disk) = Free(Format)

\* The components of the path that are absent from disk d.
Missing(d, name) == {k \in 1 .. Len(name) : ~Exists(d, Prefix(name, k))}

\* CreateDir of the path has what it needs on disk d: the components there
\* are lead to directories, the directory that takes the first new entry has
\* a slot for it, and the sectors for the new directories are free.
Fits(d, name) ==
    /\ \A k \in 1 .. Len(name) :
           Exists(d, Prefix(name, k)) => IsDirectory(d, Resolve(d, Prefix(name, k)))
    /\ \A k \in Missing(d, name) :
           (k - 1) \notin Missing(d, name) => FreeSlot(ParentTable(d, Prefix(name, k))) # -1
    /\ Cardinality(Missing(d, name)) * Need(DirectoryFileSize) <= Free(d)

\* The table a new directory of the path has after the call: its one entry
\* is the next component, and the last component has none.
NewDirTable(d2, name, k) ==
    IF k = Len(name) THEN NewTable
    ELSE AddEntry(NewTable, name[k + 1], Resolve(d2, Prefix(name, k + 1)).sector, TRUE)

\* C10: CreateDir of a path makes a directory of every component that is
\* absent, not only of the last: after the call every prefix of the path
\* leads to a directory; those that were there are the ones they were; each
\* new one is an entry of directory kind in its parent, lies in sectors of
\* its own that were free, and holds the next component of the path and
\* nothing else, the last none at all.  The call returns TRUE when the last
\* component was absent and FALSE when it was there.
CreateDirMakesEveryComponent ==
    [][(last'.op = "CreateDir" /\ Fits(disk, last'.name))
       => (/\ last'.res = (IF Exists(disk, last'.name) THEN "FALSE" ELSE "TRUE")
           /\ \A k \in 1 .. Len(last'.name) :
                  /\ IsDirectory(disk', Resolve(disk', Prefix(last'.name, k)))
                  /\ Exists(disk, Prefix(last'.name, k))
                         => Resolve(disk', Prefix(last'.name, k))
                                = Resolve(disk, Prefix(last'.name, k))
                  /\ k \in Missing(disk, last'.name)
                         => /\ Owned(disk', Prefix(last'.name, k))
                                   \subseteq FetchMap(disk') \ FetchMap(disk)
                            /\ Cardinality(Owned(disk', Prefix(last'.name, k)))
                                   = Need(DirectoryFileSize)
                            /\ TableOf(disk', Resolve(disk', Prefix(last'.name, k)))
                                   = NewDirTable(disk', last'.name, k)
                            /\ \A j \in Missing(disk, last'.name) \ {k} :
                                   Owned(disk', Prefix(last'.name, k))
                                       \cap Owned(disk', Prefix(last'.name, j)) = {})]_vars

\* C10, the case of the claim's example: CreateDir of a path of three
\* components on an empty root; the root holds the first, the first the
\* second, the second the third, and the third is empty.
CreateDirOfThree ==
    /\ last.op = "CreateDir" /\ last.res = "TRUE" /\ Len(last.name) = 3
    /\ before = Format /\ Fits(before, last.name)
    /\ Missing(before, last.name) = {1, 2, 3}
    /\ \A k \in 1 .. 3 : IsDirectory(disk, Resolve(disk, Prefix(last.name, k)))
    /\ TableOf(disk, Resolve(disk, last.name)) = NewTable
    /\ Free(disk) = Free(before) - 3 * Need(DirectoryFileSize)

\* C11: OpenId binds the file it opened to the lowest id of 1 .. NumOpen whose
\* slot is free and returns that id; when every id is bound it does not
\* return (ASSERT) and the table is as it was.  Slot 0 and slot NumOpen + 1
\* are therefore never written.
OpenIdBindsLowestFreeId ==
    [][last'.op = "OpenId"
       => IF \E fd \in 1 .. NumOpen : OpenTable[fd] = NULL
          THEN /\ last'.res = "fd"
               /\ last'.size = Min({fd \in 1 .. NumOpen : OpenTable[fd] = NULL})
               /\ OpenTable' = [OpenTable EXCEPT ![last'.size] = last'.sector]
          ELSE /\ last'.res = "abort"
               /\ OpenTable' = OpenTable]_vars

\* C11, the case that holds: ids 1 and 2 were bound, id 1 was closed, and
\* OpenId returned 1 and not 3.
OpenIdReusedFirst ==
    /\ last.op = "OpenId" /\ last.res = "fd" /\ last.size = 1 /\ nops = MaxCalls
    /\ OpenTable[1] \in Sectors /\ OpenTable[2] \in Sectors
    /\ OpenTable[3] = NULL

\* C11: the write the claim excludes.  Every id was bound, OpenId did not
\* return, and slot NumOpen + 1 holds the file.
OpenIdWroteBeyond ==
    /\ last.op = "OpenId" /\ last.res = "abort"
    /\ OpenTable[NumOpen + 1] = last.sector /\ last.sector \in Sectors

\* C12: kclose(id) on a bound id returns 1 and leaves the slot free, the rest
\* of the table as it was; on an id that is not bound it returns 0 and leaves
\* the table as it was.
CloseReleasesBoundId ==
    [][last'.op = "kclose"
       => IF OpenTable[last'.size] # NULL
          THEN /\ last'.res = "1"
               /\ OpenTable' = [OpenTable EXCEPT ![last'.size] = NULL]
          ELSE /\ last'.res = "0"
               /\ OpenTable' = OpenTable]_vars

\* C12, the case that holds: id 2 was bound to a file that exists, kclose(2)
\* returned 1, and the slot is free while id 1 is still bound.
CloseFreedSlot ==
    /\ last.op = "kclose" /\ last.res = "1" /\ last.size = 2
    /\ last.sector \in Sectors
    /\ OpenTable[2] = NULL /\ OpenTable[1] \in Sectors

\* C12: kclose of an id that OpenId bound to the pointer Open never assigned
\* did not return.
CloseOfWildStopped ==
    /\ last.op = "kclose" /\ last.res = "abort" /\ last.sector = Wild
    /\ OpenTable[last.size] = Wild

RemoveAbsentFails ==
    [][(last'.op = "Remove" /\ ~Exists(disk, last'.name))
       => (last'.res = "FALSE" /\ disk' = disk)]_vars

\* C14: Remove of the absent name b returned FALSE on a disk that has a file
\* a in the root.
RemoveOfAbsentName ==
    /\ last.op = "Remove" /\ last.res = "FALSE" /\ ~last.abs
    /\ last.name = <<"b">> /\ ~Exists(before, <<"b">>) /\ Exists(before, <<"a">>)
    /\ disk = before

FormatLaysOutDisk ==
    last.op = "Format"
    => /\ disk[FreeMapSector].k = "hdr" /\ disk[DirectorySector].k = "hdr"
       /\ disk[FreeMapSector].numBytes = FreeMapFileSize
       /\ disk[DirectorySector].numBytes = DirectoryFileSize
       /\ FetchMap(disk) = System(disk)
       /\ Cardinality(System(disk)) = 2 + divRoundUp(FreeMapFileSize, SectorSize)
                                        + divRoundUp(DirectoryFileSize, SectorSize)
       /\ \A i \in 1 .. NumDirEntries : ~Root(disk)[i].inUse

\* C16: the formatted disk, before any call.
FormattedDisk ==
    /\ last.op = "Format" /\ nops = 0 /\ disk = Format
    /\ Free(disk) = NumSectors - 2 - divRoundUp(FreeMapFileSize, SectorSize)
                                    - divRoundUp(DirectoryFileSize, SectorSize)

\* C17: Allocate checks the free sectors against all it is going to take.
\* For the call hdr->Allocate(freeMap, initialSize) that Create makes for a
\* new file in the root, on the map with the header's bit set: when fewer
\* sectors are clear than the data sectors and the child headers together
\* (Need less the file's own header), Allocate returns FALSE with the map as
\* it got it; and in no case does a FindAndSet inside it find nothing (an
\* ASSERT stops the kernel then).
AllocateValidatesTree ==
    [][(/\ last'.op = "Create" /\ Len(last'.name) = 1
        /\ ~Exists(disk, last'.name) /\ FindFree(FetchMap(disk)) # -1)
       => (/\ NumClear(FetchMap(disk)) - 1 < Need(last'.size) - 1
               => (/\ Allocate(FetchMap(disk) \cup {FindFree(FetchMap(disk))},
                               disk, last'.size).ret = "FALSE"
                   /\ Allocate(FetchMap(disk) \cup {FindFree(FetchMap(disk))},
                               disk, last'.size).map
                        = FetchMap(disk) \cup {FindFree(FetchMap(disk))})
           /\ Allocate(FetchMap(disk) \cup {FindFree(FetchMap(disk))},
                       disk, last'.size).ret # "abort")]_vars

\* C17, the case that holds: fewer sectors are free than the file has data
\* sectors, Allocate returned FALSE and Create with it, and the map on the
\* disk is as it was.
AllocateRefusedData ==
    /\ last.op = "Create" /\ last.res = "FALSE" /\ Len(last.name) = 1
    /\ ~Exists(before, last.name) /\ FetchMap(disk) = FetchMap(before)
    /\ 0 < Free(before) /\ Free(before) - 1 < divRoundUp(last.size, SectorSize)
    /\ last.size <= MaxFileSize2 + 1

\* C17: the state the claim excludes.  The data sectors alone fitted, the
\* child headers did not, and the kernel stopped inside Allocate.
AllocateStoppedInside ==
    /\ last.op = "Create" /\ last.res = "abort" /\ Len(last.name) = 1
    /\ ~Exists(before, last.name)
    /\ divRoundUp(last.size, SectorSize) <= Free(before) - 1
    /\ Free(before) - 1 < Need(last.size) - 1

\* C18: a Create that returns TRUE sets, in the free map on the disk, exactly
\* the bits of the sectors of the new file, which were all clear before:
\* its header, its data sectors and its child headers, Need(size) in number.
CreateTakesWhatItNeeds ==
    [][(last'.op = "Create" /\ last'.res = "TRUE")
       => (/\ FetchMap(disk) \subseteq FetchMap(disk')
           /\ FetchMap(disk') \ FetchMap(disk) = Owned(disk', last'.name)
           /\ Free(disk') = Free(disk) - Need(last'.size))]_vars

\* C18, the case that holds: a file with two levels of child headers was
\* created in a directory, and the free count went down by what it needs.
CreateTookTwoLevels ==
    /\ last.op = "Create" /\ last.res = "TRUE" /\ last.size = MaxFileSize2 + 1
    /\ Len(last.name) = 2 /\ IsDirectory(before, Resolve(before, Prefix(last.name, 1)))
    /\ Free(disk) = Free(before) - Need(last.size)
    /\ FetchMap(disk) \ FetchMap(before) = Owned(disk, last.name)

\* C18: the state the claim excludes.  One Create made two files, the
\* missing intermediate component and the last one, and took the sectors of
\* both.
CreateTookTwice ==
    /\ last.op = "Create" /\ last.res = "TRUE" /\ Len(last.name) = 2
    /\ ~Exists(before, Prefix(last.name, 1))
    /\ Free(disk) = Free(before) - 2 * Need(last.size)

\* C19: round trip of the offset map.  ByteToSector(offset) on the header of
\* a file that Allocate built, for an offset within the file, returns the
\* sector the chain of child headers leads to; that sector, for every offset
\* of the file, is one the file owns and no header is in (it is as the
\* format left it); and it is the sector of another offset exactly when the
\* two offsets are in the same range of SectorSize bytes.
ByteToSectorRoundTrip ==
    last.op = "ByteToSector"
    => /\ last.sector = ByteToSector(disk, OpenEntry(disk, Resolve(disk, last.name)).hdr,
                                     last.size, TRUE)
       /\ last.sector \in Owned(disk, last.name)
       /\ disk[last.sector] = Zero
       /\ \A o \in 0 .. (OpenEntry(disk, Resolve(disk, last.name)).hdr.numBytes - 1) :
              (ByteToSector(disk, OpenEntry(disk, Resolve(disk, last.name)).hdr, o, TRUE)
                 = last.sector)
              <=> (o \div SectorSize = last.size \div SectorSize)

\* C19, the case that holds: in a file of NumDirect data sectors and no
\* child header, the last offset is in the last data sector.
ByteToSectorOfDirect ==
    /\ last.op = "ByteToSector" /\ last.size = MaxFileSize - 1
    /\ last.sector \in Sectors
    /\ last.sector = Resolve(disk, last.name).sector + NumDirect
    /\ disk[Resolve(disk, last.name).sector].numBytes = MaxFileSize

\* C19: the state the claim excludes.  The header has child headers, and
\* ByteToSector returned something that is no sector of the file.
ByteToSectorLostValue ==
    /\ last.op = "ByteToSector"
    /\ disk[Resolve(disk, last.name).sector].numBytes > MaxFileSize
    /\ last.sector \notin Owned(disk, last.name)

\* Whether the entry of path p is in its parent's table on disk d2, the
\* table being where it was on disk d.
EntryOnDisk(d, d2, p) ==
    IF Len(p) = 1
    THEN FindIndex(d2[FirstData(directoryFile(d))].table, p[1]) # -1
    ELSE FindIndex(d2[FirstData(OpenEntry(d, Resolve(d, Prefix(p, Len(p) - 1))))].table,
                   p[Len(p)]) # -1

\* Post-order on disk d2, for the call RRemove(name) made on disk d: a
\* directory at or beneath the name whose entry is gone has nothing left
\* beneath it, neither an entry nor a set bit.
PostOrder(d, d2, name) ==
    \A p \in Paths :
        (/\ Len(p) >= Len(name) /\ Prefix(p, Len(name)) = name
         /\ IsDirectory(d, Resolve(d, p)) /\ ~EntryOnDisk(d, d2, p))
        => \A q \in Paths :
               (Len(q) > Len(p) /\ Prefix(q, Len(p)) = p /\ Exists(d, q))
               => (~EntryOnDisk(d, d2, q) /\ Owned(d, q) \cap FetchMap(d2) = {})

\* C20: RRemove is post-order on the disk.  After each write of the call,
\* whatever the call may do, a directory at or beneath the target whose
\* entry is out of its parent's table has every entry beneath it out of its
\* table and every sector beneath it clear in the free map; with the
\* target as that directory, its own entry is the last to go.
RemoveRecursiveIsPostOrder ==
    [][last'.op = "RRemove"
       => \A g \in Garbage(disk, RRemove(disk, last'.name, -1).ub,
                           RRemove(disk, last'.name, -1).ubw) :
              \A i \in 1 .. Len(RRemoveLog(disk, last'.name, g)) :
                  PostOrder(disk, RRemoveLog(disk, last'.name, g)[i], last'.name)]_vars

\* C20: RRemove of a directory that holds a directory that holds a
\* directory has made its six writes, and the target is gone.
RecursiveRemoveWroteSix ==
    /\ last.op = "RRemove" /\ last.name = <<"a">>
    /\ IsDirectory(before, Resolve(before, <<"a", "b", "a">>))
    /\ Len(RRemoveLog(before, last.name, -1)) = 6
    /\ RRemoveLog(before, last.name, -1)[6] = disk
    /\ ~Exists(disk, <<"a">>)

RECURSIVE Partitions(_, _, _)
\* The header in sector s and all beneath it divide the file's bytes as
\* Allocate does: a direct header has a data sector for each SectorSize
\* bytes; a header with child headers has one for each full share of its
\* level and one for what is left, each of exactly that length and each
\* dividing its own bytes likewise.  level bounds the nest.
Partitions(d, s, level) ==
    /\ s \in Sectors /\ d[s].k = "hdr"
    /\ d[s].numSectors = divRoundUp(d[s].numBytes, SectorSize)
    /\ IF Span(d[s].numBytes) = 0
       THEN \A i \in 1 .. d[s].numSectors : d[s].dataSectors[i] \in Sectors
       ELSE /\ level > 0 /\ Children(d[s].numBytes) <= NumDirect
            /\ \A i \in 1 .. Children(d[s].numBytes) :
                   /\ d[s].dataSectors[i] \in Sectors
                   /\ d[d[s].dataSectors[i]].k = "hdr"
                   /\ d[d[s].dataSectors[i]].numBytes
                        = (IF i < Children(d[s].numBytes) THEN Span(d[s].numBytes)
                           ELSE d[s].numBytes
                                  - (Children(d[s].numBytes) - 1) * Span(d[s].numBytes))
                   /\ d[d[s].dataSectors[i]].numBytes > 0
                   /\ Partitions(d, d[s].dataSectors[i], level - 1)

DirsUnder(d, name) ==
    {q \in Paths : /\ Len(q) >= Len(name) /\ Prefix(q, Len(name)) = name
                   /\ Resolves(d, q) /\ IsDirectory(d, Resolve(d, q))}

\* The listing out is depth-first over the directories at and beneath the
\* name on disk d: it starts with the name's directory, holds exactly the
\* directories beneath it, each once; a directory comes before all beneath
\* it, and nothing that is not beneath it comes between it and one beneath
\* it.
DepthFirst(d, name, out, dirs) ==
    /\ Len(out) = Cardinality(dirs)
    /\ out[1] = Resolve(d, name).sector
    /\ {out[i] : i \in 1 .. Len(out)} = {Resolve(d, q).sector : q \in dirs}
    /\ \A p, q \in dirs :
           (Len(q) > Len(p) /\ Prefix(q, Len(p)) = p)
           => \A i, k \in 1 .. Len(out) :
                  (out[i] = Resolve(d, p).sector /\ out[k] = Resolve(d, q).sector)
                  => (/\ i < k
                      /\ \A j \in (i + 1) .. (k - 1) :
                             \E r \in dirs :
                                 /\ Len(r) > Len(p) /\ Prefix(r, Len(p)) = p
                                 /\ out[j] = Resolve(d, r).sector)

ListedForEver ==
    /\ last.op = "RList" /\ last.res = "loop"
    /\ IsDirectory(disk, Resolve(disk, last.name))

\* Every entry reachable from the root on disk d leads to sectors that are
\* all marked in the free map on d: the header, and the data sectors and
\* child headers under it.
NoDangling(d) == \A p \in Paths : Exists(d, p) => Owned(d, p) \subseteq FetchMap(d)

\* C23: no dangling references.  A call of Create, CreateDir, Remove or
\* RRemove that runs to its end on a disk without a dangling entry leaves a
\* disk without one; the formatted disk has none, so no sequence of
\* completed calls makes one.
NoDanglingReferences ==
    [][(/\ last'.op \in {"Create", "CreateDir", "Remove", "RRemove"}
        /\ last'.res # "abort" /\ NoDangling(disk))
       => NoDangling(disk')]_vars

\* C23, the case that holds: after three completed calls, the last one a
\* remove that took a directory with something in it, nothing dangles.
NothingDanglesAfterRemove ==
    /\ last.op = "RRemove" /\ last.res # "abort" /\ nops = MaxOps
    /\ IsDirectory(before, Resolve(before, last.name))
    /\ Exists(before, last.name \o <<"a">>)
    /\ ~Exists(disk, last.name) /\ Exists(disk, <<"b">>)
    /\ NoDangling(disk)

\* C23: the state the claim excludes.  A completed call has left an entry
\* in the root whose header sector is clear in the free map.
EntryOfFreeSector ==
    /\ last.res # "abort" /\ ~halted
    /\ \E p \in Paths : /\ Len(p) = 1 /\ Exists(disk, p)
                        /\ Resolve(disk, p).sector \notin FetchMap(disk)

\* The path p lies in the subtree rooted at the path name: it is the name or
\* leads through it.
Within(name, p) == Len(p) >= Len(name) /\ Prefix(p, Len(name)) = name

\* What RRemove(name) on disk d may not touch is kept on disk d2: every path
\* outside the subtree of the name leads to the entry it led to, and the
\* sectors it owned are still marked in the free map.
Kept(d, d2, name) ==
    \A p \in Paths :
        (Exists(d, p) /\ ~Within(name, p))
        => (Resolve(d2, p) = Resolve(d, p) /\ Owned(d, p) \subseteq FetchMap(d2))

\* C24: the frame of removeRecursive.  RRemove of a path that leads to a
\* file or a directory leaves every entry outside the subtree of the path
\* with its directory entry and its sectors, siblings of the target included.
RecursiveRemoveKeepsOthers ==
    [][(/\ last'.op = "RRemove" /\ Resolves(disk, last'.name)
        /\ Exists(disk, last'.name))
       => Kept(disk, disk', last'.name)]_vars

\* C24, the case that holds: a directory with something in it is removed
\* and its sibling, a plain file with data, keeps its entry and its sectors.
RecursiveRemoveKeptSibling ==
    /\ last.op = "RRemove" /\ Len(last.name) = 1 /\ ~Exists(disk, last.name)
    /\ IsDirectory(before, Resolve(before, last.name))
    /\ \E p \in Paths : Len(p) > 1 /\ Within(last.name, p) /\ Exists(before, p)
    /\ \E p \in Paths : /\ Len(p) = 1 /\ p # last.name /\ Exists(before, p)
                        /\ ~Resolve(before, p).isDir
                        /\ Cardinality(Owned(before, p)) > 1
                        /\ Intact(before, disk, p)
    /\ Kept(before, disk, last.name)

\* C24: the state the claim excludes.  RRemove of a plain file inside a
\* directory ran to its end and the plain file next to it is gone as well.
RecursiveRemoveTookSibling ==
    /\ last.op = "RRemove" /\ last.res # "abort" /\ Len(last.name) = 2
    /\ Exists(before, last.name) /\ ~Resolve(before, last.name).isDir
    /\ \E p \in Paths : /\ Len(p) = 2 /\ p # last.name /\ p[1] = last.name[1]
                        /\ Exists(before, p) /\ ~Exists(disk, p)
                        /\ Resolve(before, p).sector \notin FetchMap(disk)

\* The OpenFile with its header in sector s is the file of an entry on disk
\* d, and its header sector, its data sectors and its child headers are all
\* marked in the free map on d.
Backed(d, s) ==
    /\ \E p \in Paths : Exists(d, p) /\ Resolve(d, p).sector = s
    /\ Tree(d, s, 3) \subseteq FetchMap(d)

\* C25: handles stay backed.  In every reachable state each id of the
\* open-file table that is bound to an OpenFile is bound to the file of an
\* entry on disk whose header sector and other sectors are marked in the
\* free map, whatever calls of OpenId, Remove, RRemove and Create were made.
BoundHandlesStayAllocated ==
    \A fd \in 1 .. NumOpen : OpenTable[fd] \in Sectors => Backed(disk, OpenTable[fd])

\* C25, the case that holds: with two plain files on disk and an id bound
\* to one of them, Remove of the other returned TRUE and the id is still
\* bound to a file with its sectors marked.
HandleOutlivesOtherRemove ==
    /\ last.op = "Remove" /\ last.res = "TRUE" /\ ~Exists(disk, last.name)
    /\ \E fd \in 1 .. NumOpen :
           /\ OpenTable[fd] \in Sectors
           /\ OpenTable[fd] # Resolve(before, last.name).sector
    /\ BoundHandlesStayAllocated

\* C25: the state the claim excludes.  Remove of a file with data returned
\* TRUE while an id was bound to it: the id is still bound, and the header
\* sector and the data sector it leads to are clear in the free map.
HandleOfRemovedFile ==
    /\ last.op = "Remove" /\ last.res = "TRUE"
    /\ \E fd \in 1 .. NumOpen :
           /\ OpenTable[fd] = Resolve(before, last.name).sector
           /\ OpenTable[fd] \in Sectors
           /\ Cardinality(Tree(before, OpenTable[fd], 3)) > 1
           /\ Tree(before, OpenTable[fd], 3) \cap FetchMap(disk) = {}


====
